---- MODULE Spec2Model ----
(***************************************************************************)
(* Model of the Wintermute conversation pipeline:                          *)
(*   WintermuteApp.on_input_submitted      (src/wintermute/app.py)         *)
(*   MessageHandler.process_message_streaming and its helpers              *)
(*                                (src/wintermute/services/message_handler.py) *)
(*   ChatPane / CharacterPane state         (src/wintermute/ui/...)        *)
(*   MemoryClient.query / store   (src/wintermute/services/memory_client.py) *)
(*   OllamaClient.generate / stream                                        *)
(*                                (src/wintermute/services/ollama_client.py) *)
(*   CharacterManager / PersonaManager                                     *)
(*              (src/wintermute/services/character_manager.py, persona_manager.py) *)
(*                                                                         *)
(* Spec is a conversation turn as the app runs it.  ClientSpec, MemorySpec *)
(* and PersonaSpec exercise the generation client, the memory client and   *)
(* the persona managers on their own, over the same state.                 *)
(*                                                                         *)
(* Text is a sequence of string pieces; concatenation is \o.  Every await  *)
(* of the code is a point where other events (persona navigation) may be   *)
(* interleaved.  Temperatures are in tenths (7 is 0.7).                    *)
(* selected_index is 0-based as in the code; characters[selected_index+1]  *)
(* is the selected element.                                                *)
(***************************************************************************)
EXTENDS Integers, Sequences, FiniteSets, TLC

\* ---------------------------------------------------------------- bounds
\* ChatPane.messages and ChatPane._chunk_count grow without limit in the code
MaxMessages == 6
MaxChunkCount == 3

\* ------------------------------------------------------ input universes
Chunks == { <<"Hi">>, <<"!">> }

UserInputs == { <<" ">>, <<" ", "hey", " ">> }

ErrorKinds == { "connect", "timeout" }

Alice == [id |-> "alice", name |-> "Alice", system_prompt |-> <<"Be Alice.">>, temperature |-> 7]
Bob == [id |-> "bob", name |-> "Bob", system_prompt |-> <<"Be Bob.">>, temperature |-> 2]

CharacterSets == { <<>>, <<Alice, Bob>> }

CharacterIds == { "alice", "bob", "ghost" }

Mem(c) == [content |-> <<c>>]

\* what the memory backend does with a query: raise, or answer with matches
MemoryAnswers ==
    { [raises |-> TRUE, matches |-> <<>>],
      [raises |-> FALSE, matches |-> <<>>],
      [raises |-> FALSE, matches |-> <<Mem("m1"), Mem("m2"), Mem("m3"), Mem("m4")>>] }

NoCharacter == [id |-> "none", name |-> "none", system_prompt |-> <<>>, temperature |-> 0]

\* ------------------------------------------------------------- helpers
Min(a, b) == IF a < b THEN a ELSE b

Max(a, b) == IF a > b THEN a ELSE b

RECURSIVE Concat(_)
Concat(ss) == IF ss = <<>> THEN <<>> ELSE Head(ss) \o Concat(Tail(ss))

RECURSIVE Join(_, _)
Join(sep, ss) ==
    IF ss = <<>> THEN <<>>
    ELSE IF Len(ss) = 1 THEN Head(ss)
    ELSE Head(ss) \o <<sep>> \o Join(sep, Tail(ss))

LastN(s, n) == SubSeq(s, Max(1, Len(s) - n + 1), Len(s))

RECURSIVE LStrip(_)
LStrip(s) == IF s # <<>> /\ Head(s) = " " THEN LStrip(Tail(s)) ELSE s

RECURSIVE RStrip(_)
RStrip(s) == IF s # <<>> /\ s[Len(s)] = " " THEN RStrip(SubSeq(s, 1, Len(s) - 1)) ELSE s

Strip(s) == RStrip(LStrip(s))

Capitalize(role) ==
    CASE role = "user" -> "User"
      [] role = "assistant" -> "Assistant"
      [] role = "system" -> "System"

\* ---------------------------------------------------------------- state
VARIABLES
    messages,        \* ChatPane.messages
    chunk_count,     \* ChatPane._chunk_count
    displayed,       \* contents shown by the last ChatPane._update_display
    input_enabled,   \* ChatPane.input_enabled
    is_typing,       \* ChatPane.is_typing
    characters,      \* CharacterPane.characters
    selected_index,  \* CharacterPane.selected_index
    pc,              \* position of on_input_submitted / process_message_streaming
    user_input,      \* on_input_submitted: user_input
    active_character,\* on_input_submitted: active_character
    history,         \* process_message_streaming: conversation_history
    full_response,   \* process_message_streaming: full_response
    response_text,   \* on_input_submitted: response_text
    turn,            \* number of turns started
    cur,             \* the latest turn: what the user and the backends did in it
    queryLog,        \* requests the turn in flight sent to the memory backend's query
    genLog,          \* requests the turn in flight sent to the generation backend
    countLog,        \* requests _update_memory_count sent for the turn in flight
    storeLog,        \* all calls of MemoryClient.store, in issue order
    body,            \* OllamaClient.stream: the fragments of the response body
    reads,           \* the reads response.aiter_bytes() has delivered so far
    yields,          \* the chunks OllamaClient.stream has yielded so far
    gen,             \* position of the generator OllamaClient.stream
    conn,            \* the connection held by self._client.stream(...)
    fault,           \* what the transport did to the stream request
    raised,          \* the exception OllamaClient.stream raised to its consumer
    stopped,         \* how the consumer left the chunk sequence early
    om_requests,     \* MemoryClient: the calls of self._om.add, in order
    om_items,        \* the items the memory backend holds
    files,           \* the *.json files of characters_dir
    manager_characters,   \* CharacterManager.characters
    active_index,         \* CharacterManager.active_index
    personas,             \* PersonaManager.personas
    persona_active_index, \* PersonaManager.active_index
    last             \* the latest call on a client, manager or pane, and its outcome

turnVars == << messages, chunk_count, displayed, input_enabled, is_typing,
               characters, selected_index, pc, user_input, active_character,
               history, full_response, response_text, turn, cur,
               queryLog, genLog, countLog, storeLog >>

clientVars == << body, reads, yields, gen, conn, fault, raised, stopped >>

memoryVars == << om_requests, om_items >>

managerVars == << files, manager_characters, active_index, personas, persona_active_index >>

auxVars == << clientVars, memoryVars, managerVars, last >>

vars == << turnVars, auxVars >>

paneVars == << characters, selected_index >>

chatVars == << messages, chunk_count, displayed >>

localVars == << user_input, active_character, history, full_response, response_text >>

logVars == << queryLog, genLog, countLog, storeLog >>

\* ------------------------------------------------------------- messages
Message(role, content, name) == [role |-> role, content |-> content, character_name |-> name]

Contents(msgs) == [i \in 1..Len(msgs) |-> msgs[i].content]

\* variant: the cause is shown without the "Error: " prefix
ErrorMessageUnprefixed(text) == Message("system", text, "")

\* the message on_input_submitted appends in its except clause
ErrorMessage(text) == Message("system", <<"Error: ">> \o text, "")

\* variant: the input is left enabled while the turn runs
InputLeftEnabled == TRUE

\* on_input_submitted: set_input_enabled(False) before the turn starts
InputEnabledDuringTurn == FALSE

\* ChatPane.add_message
AddMessage(pane, msg) ==
    LET msgs == Append(pane.messages, msg)
    IN [messages |-> msgs, chunk_count |-> pane.chunk_count, displayed |-> Contents(msgs)]

\* variant: the content is assigned only when the display is refreshed by count
UpdateLastMessageThrottled(pane, content, force) ==
    IF pane.messages = <<>> THEN pane
    ELSE LET n == Len(pane.messages)
             cnt == pane.chunk_count + 1
             msgs == IF cnt % 3 = 0 THEN [pane.messages EXCEPT ![n].content = content]
                     ELSE pane.messages
         IN [messages |-> msgs,
             chunk_count |-> cnt,
             displayed |-> IF force \/ cnt % 3 = 0 THEN Contents(msgs) ELSE pane.displayed]

\* ChatPane.update_last_message
UpdateLastMessage(pane, content, force) ==
    IF pane.messages = <<>> THEN pane
    ELSE LET n == Len(pane.messages)
             msgs == [pane.messages EXCEPT ![n].content = content]
             cnt == pane.chunk_count + 1
         IN [messages |-> msgs,
             chunk_count |-> cnt,
             displayed |-> IF force \/ cnt % 3 = 0 THEN Contents(msgs) ELSE pane.displayed]

Pane == [messages |-> messages, chunk_count |-> chunk_count, displayed |-> displayed]

SetPane(p) ==
    /\ messages' = p.messages
    /\ chunk_count' = p.chunk_count
    /\ displayed' = p.displayed

\* ------------------------------------------------------- context assembly
\* variant: every retrieved memory is rendered
BuildMemoryContextAll(memories) ==
    IF memories = <<>> THEN <<>>
    ELSE LET parts == [i \in 1..Len(memories) |-> <<"- ">> \o memories[i].content]
         IN <<"Relevant context:\n">> \o Join("\n", parts)

\* variant: the first five messages of the history are rendered
BuildConversationContextOldest(conversation_history) ==
    IF conversation_history = <<>> THEN <<>>
    ELSE LET recent == SubSeq(conversation_history, 1, Min(5, Len(conversation_history)))
             parts == [i \in 1..Len(recent) |->
                          <<Capitalize(recent[i].role), ": ">> \o recent[i].content]
         IN <<"Recent conversation:\n">> \o Join("\n", parts)

\* MessageHandler._build_memory_context
BuildMemoryContext(memories) ==
    IF memories = <<>> THEN <<>>
    ELSE LET top == SubSeq(memories, 1, Min(3, Len(memories)))
             parts == [i \in 1..Len(top) |-> <<"- ">> \o top[i].content]
         IN <<"Relevant context:\n">> \o Join("\n", parts)

\* MessageHandler._build_conversation_context
BuildConversationContext(conversation_history) ==
    IF conversation_history = <<>> THEN <<>>
    ELSE LET recent == LastN(conversation_history, 5)
             parts == [i \in 1..Len(recent) |->
                          <<Capitalize(recent[i].role), ": ">> \o recent[i].content]
         IN <<"Recent conversation:\n">> \o Join("\n", parts)

\* MessageHandler._build_prompt
BuildPrompt(user_message, memory_context, conversation_context) ==
    LET p1 == IF memory_context # <<>> THEN <<memory_context>> ELSE <<>>
        p2 == IF conversation_context # <<>> THEN <<conversation_context>> ELSE <<>>
        parts == p1 \o p2 \o << <<"User: ">> \o user_message >>
    IN Join("\n\n", parts)

\* MessageHandler.global_system_prompt.  WintermuteApp.__init__ constructs the
\* handler without this argument; the model takes the handler as built with
\* Config.global_system_prompt, the value its signature documents.
GlobalSystemPrompt == <<"Stay in character.">>

CombinedSystemPrompt(character) ==
    GlobalSystemPrompt \o <<"\n\n">> \o character.system_prompt

\* ------------------------------------------------------------- gateways
\* MemoryClient.query: no owner or a backend error gives the empty list
MemoryQuery(user_id, answer) ==
    IF user_id = "" THEN <<>>
    ELSE IF answer.raises THEN <<>>
    ELSE answer.matches

\* MemoryClient.store can succeed only with an owner id
StoreCanSucceed(user_id) == user_id # ""

\* str(e) of what OllamaClient.stream raises to its consumer
ErrorText(kind) ==
    IF kind = "connect" THEN <<"Failed to connect to Ollama: ", "refused">>
    ELSE <<"timed out">>

\* variant: the assistant item is stored first
StoreCallsAssistantFirst(user_message, assistant_response, character_id) ==
    << [content |-> <<"Assistant replied: ">> \o assistant_response,
        tags |-> <<"conversation", "assistant">>,
        user_id |-> character_id],
       [content |-> <<"User said: ">> \o user_message,
        tags |-> <<"conversation", "user">>,
        user_id |-> character_id] >>

\* variant: the second call is a copy of the first with only the content changed
StoreCallsCopiedTags(user_message, assistant_response, character_id) ==
    << [content |-> <<"User said: ">> \o user_message,
        tags |-> <<"conversation", "user">>,
        user_id |-> character_id],
       [content |-> <<"Assistant replied: ">> \o assistant_response,
        tags |-> <<"conversation", "user">>,
        user_id |-> character_id] >>

\* MessageHandler._store_conversation: the two store calls, in issue order
StoreCalls(user_message, assistant_response, character_id) ==
    << [content |-> <<"User said: ">> \o user_message,
        tags |-> <<"conversation", "user">>,
        user_id |-> character_id],
       [content |-> <<"Assistant replied: ">> \o assistant_response,
        tags |-> <<"conversation", "assistant">>,
        user_id |-> character_id] >>

\* variant: the owner is read from the pane when the stores are issued
StoreOwnerSelected == characters[selected_index + 1].id

\* the owner process_message_streaming hands to _store_conversation
StoreOwner == active_character.id

StoreEntry(call, t) ==
    [turn |-> t, content |-> call.content, tags |-> call.tags, user_id |-> call.user_id,
     status |-> "pending", ended |-> cur.ended, chunks |-> cur.yielded]

NewTurn(text, ch, start) ==
    [input |-> text, selected |-> ch, yielded |-> <<>>, ended |-> FALSE,
     outcome |-> "running", cause |-> <<>>, memRaised |-> FALSE,
     msgStart |-> start]

\* the handler returns: its locals and the requests of the turn go out of scope
ResetLocals ==
    /\ queryLog' = <<>>
    /\ genLog' = <<>>
    /\ countLog' = <<>>
    /\ user_input' = <<>>
    /\ active_character' = NoCharacter
    /\ history' = <<>>
    /\ full_response' = <<>>
    /\ response_text' = <<>>

\* ------------------------------------------- calls on clients and managers
\* the record kept of a call: the operation, its argument, the selection (or
\* the number of backend requests) before it, and what it raised
Call(op, arg, pre, exc) ==
    [op |-> op, arg |-> arg, pre |-> pre, raised |-> exc,
     prior_op |-> "none", prior_pre |-> 0]

NoCall == Call("none", "", 0, "none")

\* the consumer of a chunk sequence that has not left it early
NotStopped == [via |-> "none", pending |-> 0, reads |-> 0]

\* no request has been made on the generation client
ClientIdle ==
    /\ body = <<>>
    /\ reads = <<>>
    /\ yields = <<>>
    /\ gen = "created"
    /\ conn = "idle"
    /\ fault = "none"
    /\ raised = "none"
    /\ stopped = NotStopped

\* no request has been made on the memory client
MemoryIdle ==
    /\ om_requests = <<>>
    /\ om_items = <<>>

\* ------------------------------------------------- persona definitions
\* the *.json names of characters_dir, in the order glob yields them
FileNames == <<"alice.json", "bob.json", "carol.json">>

\* f"{character.id}.json"
FileName(id) == id \o ".json"

AllFields == {"id", "name", "system_prompt", "temperature"}

RequiredFields == {"id", "name", "system_prompt"}

\* Field(default=0.7), Field(ge=0.0), Field(le=2.0), in tenths
DefaultTemperature == 7

MinTemperature == 0

MaxTemperature == 20

Definition(id, temperature) ==
    [id |-> id, name |-> id, system_prompt |-> <<"Be ", id, ".">>, temperature |-> temperature]

\* a file of the directory: its kind, and for a JSON object the fields it
\* has and their values
File(kind, fields, data) == [kind |-> kind, fields |-> fields, data |-> data]

Absent == File("absent", {}, Definition("", 0))

\* the bytes are text, the text is no JSON document
BrokenJson == File("broken", {}, Definition("", 0))

\* the bytes are no text in the encoding open() reads with
Undecodable == File("undecodable", {}, Definition("", 0))

JsonObject(fields, data) == File("object", fields, data)

DefinitionFiles ==
    { Absent,
      JsonObject(AllFields, Definition("alice", 0)),
      JsonObject(AllFields, Definition("bob", 20)),
      JsonObject(AllFields \ {"temperature"}, Definition("carol", 0)),
      JsonObject(AllFields \ {"id"}, Definition("alice", 7)),
      JsonObject(AllFields \ {"name"}, Definition("alice", 7)),
      JsonObject(AllFields \ {"system_prompt"}, Definition("alice", 7)),
      JsonObject(AllFields, Definition("bob", -1)),
      JsonObject(AllFields, Definition("bob", 21)),
      BrokenJson,
      Undecodable }

EmptyDir == [n \in {FileNames[k] : k \in 1..Len(FileNames)} |-> Absent]

\* no manager has been constructed
ManagerIdle ==
    /\ files = EmptyDir
    /\ manager_characters = <<>>
    /\ active_index = 0
    /\ personas = <<>>
    /\ persona_active_index = 0

\* ------------------------------------------------------------------ Init
\* the chat pane and the handler before the first turn
TurnIdle ==
    /\ messages = <<>>
    /\ chunk_count = 0
    /\ displayed = <<>>
    /\ input_enabled = TRUE
    /\ is_typing = FALSE
    /\ pc = "idle"
    /\ user_input = <<>>
    /\ active_character = NoCharacter
    /\ history = <<>>
    /\ full_response = <<>>
    /\ response_text = <<>>
    /\ turn = 0
    /\ cur = NewTurn(<<>>, NoCharacter, 0)
    /\ queryLog = <<>>
    /\ genLog = <<>>
    /\ countLog = <<>>
    /\ storeLog = <<>>

Init ==
    /\ TurnIdle
    /\ characters \in CharacterSets
    /\ selected_index = 0
    /\ ClientIdle
    /\ MemoryIdle
    /\ ManagerIdle
    /\ last = NoCall

\* --------------------------------------------------------------- actions
\* variant: the text is taken as it was typed
SubmitUntrimmed(raw) ==
    /\ input_enabled
    /\ Len(messages) + 3 <= MaxMessages
    /\ LET text == raw
           p1 == AddMessage(Pane, Message("user", text, ""))
       IN IF text = <<>> THEN UNCHANGED turnVars
          ELSE IF characters = <<>> \/ selected_index >= Len(characters)
          THEN \* get_selected_character raises IndexError: except and finally
               /\ SetPane(AddMessage(p1, ErrorMessage(<<"No characters available">>)))
               /\ is_typing' = TRUE
               /\ input_enabled' = TRUE
               /\ pc' = "idle"
               /\ ResetLocals
               /\ turn' = turn + 1
               /\ cur' = [NewTurn(text, NoCharacter, Len(messages))
                            EXCEPT !.outcome = "no_character"]
               /\ UNCHANGED << paneVars, storeLog >>
          ELSE LET ch == characters[selected_index + 1]
                   p2 == AddMessage(p1, Message("assistant", <<>>, ch.name))
               IN /\ SetPane(p2)
                  /\ is_typing' = FALSE
                  /\ input_enabled' = InputEnabledDuringTurn
                  /\ pc' = "retrieving"
                  /\ user_input' = text
                  /\ active_character' = ch
                  /\ history' = LastN(p2.messages, 10)
                  /\ full_response' = <<>>
                  /\ response_text' = <<>>
                  /\ turn' = turn + 1
                  /\ cur' = NewTurn(text, ch, Len(messages))
                  /\ queryLog' = IF ch.id = "" THEN <<>>
                                 ELSE << [query |-> text, k |-> 5, user_id |-> ch.id] >>
                  /\ genLog' = <<>>
                  /\ countLog' = <<>>
                  /\ UNCHANGED << paneVars, storeLog >>

\* variant: the turn takes the last loaded character
SubmitTakingLast(raw) ==
    /\ input_enabled
    /\ Len(messages) + 3 <= MaxMessages
    /\ LET text == Strip(raw)
           p1 == AddMessage(Pane, Message("user", text, ""))
       IN IF text = <<>> THEN UNCHANGED turnVars
          ELSE IF characters = <<>> \/ selected_index >= Len(characters)
          THEN \* get_selected_character raises IndexError: except and finally
               /\ SetPane(AddMessage(p1, ErrorMessage(<<"No characters available">>)))
               /\ is_typing' = TRUE
               /\ input_enabled' = TRUE
               /\ pc' = "idle"
               /\ ResetLocals
               /\ turn' = turn + 1
               /\ cur' = [NewTurn(text, NoCharacter, Len(messages))
                            EXCEPT !.outcome = "no_character"]
               /\ UNCHANGED << paneVars, storeLog >>
          ELSE LET ch == characters[Len(characters)]
                   p2 == AddMessage(p1, Message("assistant", <<>>, ch.name))
               IN /\ SetPane(p2)
                  /\ is_typing' = FALSE
                  /\ input_enabled' = InputEnabledDuringTurn
                  /\ pc' = "retrieving"
                  /\ user_input' = text
                  /\ active_character' = ch
                  /\ history' = LastN(p2.messages, 10)
                  /\ full_response' = <<>>
                  /\ response_text' = <<>>
                  /\ turn' = turn + 1
                  /\ cur' = NewTurn(text, ch, Len(messages))
                  /\ queryLog' = IF ch.id = "" THEN <<>>
                                 ELSE << [query |-> text, k |-> 5, user_id |-> ch.id] >>
                  /\ genLog' = <<>>
                  /\ countLog' = <<>>
                  /\ UNCHANGED << paneVars, storeLog >>

\* on_input_submitted up to the first await: the input is trimmed, the user
\* message and the assistant placeholder are appended, the selected character
\* is read, and process_message_streaming issues the memory query.
Submit(raw) ==
    /\ input_enabled
    /\ Len(messages) + 3 <= MaxMessages
    /\ LET text == Strip(raw)
           p1 == AddMessage(Pane, Message("user", text, ""))
       IN IF text = <<>> THEN UNCHANGED turnVars
          ELSE IF characters = <<>> \/ selected_index >= Len(characters)
          THEN \* get_selected_character raises IndexError: except and finally
               /\ SetPane(AddMessage(p1, ErrorMessage(<<"No characters available">>)))
               /\ is_typing' = TRUE
               /\ input_enabled' = TRUE
               /\ pc' = "idle"
               /\ ResetLocals
               /\ turn' = turn + 1
               /\ cur' = [NewTurn(text, NoCharacter, Len(messages))
                            EXCEPT !.outcome = "no_character"]
               /\ UNCHANGED << paneVars, storeLog >>
          ELSE LET ch == characters[selected_index + 1]
                   p2 == AddMessage(p1, Message("assistant", <<>>, ch.name))
               IN /\ SetPane(p2)
                  /\ is_typing' = FALSE
                  /\ input_enabled' = InputEnabledDuringTurn
                  /\ pc' = "retrieving"
                  /\ user_input' = text
                  /\ active_character' = ch
                  /\ history' = LastN(p2.messages, 10)
                  /\ full_response' = <<>>
                  /\ response_text' = <<>>
                  /\ turn' = turn + 1
                  /\ cur' = NewTurn(text, ch, Len(messages))
                  /\ queryLog' = IF ch.id = "" THEN <<>>
                                 ELSE << [query |-> text, k |-> 5, user_id |-> ch.id] >>
                  /\ genLog' = <<>>
                  /\ countLog' = <<>>
                  /\ UNCHANGED << paneVars, storeLog >>

\* variant: a backend error of the query is raised to the caller
QueryReturnPropagating(answer) ==
    /\ pc = "retrieving"
    /\ IF active_character.id # "" /\ answer.raises
       THEN /\ SetPane(AddMessage(Pane, ErrorMessage(<<"memory down">>)))
            /\ input_enabled' = TRUE
            /\ pc' = "idle"
            /\ cur' = [cur EXCEPT !.outcome = "gen_failed", !.memRaised = TRUE]
            /\ ResetLocals
            /\ UNCHANGED << is_typing, paneVars, turn, storeLog >>
       ELSE /\ genLog' = Append(genLog,
                   [prompt |-> BuildPrompt(user_input, BuildMemoryContext(answer.matches),
                                           BuildConversationContext(history)),
                    memory_context |-> BuildMemoryContext(answer.matches),
                    temperature |-> active_character.temperature,
                    system |-> CombinedSystemPrompt(active_character)])
            /\ pc' = "streaming"
            /\ UNCHANGED << chatVars, input_enabled, is_typing, paneVars, localVars, turn,
                            cur, queryLog, countLog, storeLog >>

\* memory.query returns; the prompt is assembled and the stream request is sent
QueryReturn(answer) ==
    /\ pc = "retrieving"
    /\ LET memories == MemoryQuery(active_character.id, answer)
           memory_context == BuildMemoryContext(memories)
           conversation_context == BuildConversationContext(history)
           full_prompt == BuildPrompt(user_input, memory_context, conversation_context)
       IN /\ genLog' = Append(genLog, [prompt |-> full_prompt,
                                       memory_context |-> memory_context,
                                       temperature |-> active_character.temperature,
                                       system |-> CombinedSystemPrompt(active_character)])
          /\ cur' = [cur EXCEPT !.memRaised = (active_character.id # "" /\ answer.raises)]
    /\ pc' = "streaming"
    /\ UNCHANGED << chatVars, input_enabled, is_typing, paneVars, localVars, turn,
                    queryLog, countLog, storeLog >>

\* the stream yields a chunk: both loops accumulate it and the pane is updated
StreamChunk(chunk) ==
    /\ pc = "streaming"
    /\ chunk_count < MaxChunkCount
    /\ full_response' = full_response \o chunk
    /\ response_text' = response_text \o chunk
    /\ SetPane(UpdateLastMessage(Pane, response_text', FALSE))
    /\ cur' = [cur EXCEPT !.yielded = Append(@, chunk)]
    /\ UNCHANGED << input_enabled, is_typing, paneVars, pc, user_input, active_character,
                    history, turn, logVars >>

\* the stream ends: _store_conversation issues the store of the user item
StreamEnd ==
    /\ pc = "streaming"
    /\ cur' = [cur EXCEPT !.ended = TRUE]
    /\ storeLog' = Append(storeLog,
                     [StoreEntry(StoreCalls(user_input, full_response, StoreOwner)[1], turn)
                        EXCEPT !.ended = TRUE])
    /\ pc' = "store_user"
    /\ UNCHANGED << chatVars, input_enabled, is_typing, paneVars, localVars, turn,
                    queryLog, genLog, countLog >>

\* variant: a failed store call is raised to the caller of the chunk stream
StoreReturnPropagating(ok) ==
    /\ pc \in {"store_user", "store_assistant"}
    /\ storeLog # <<>>
    /\ ok => StoreCanSucceed(storeLog[Len(storeLog)].user_id)
    /\ LET done == [storeLog EXCEPT ![Len(storeLog)].status = IF ok THEN "ok" ELSE "failed"]
       IN IF ~ok
          THEN /\ storeLog' = done
               /\ SetPane(AddMessage(Pane, ErrorMessage(<<"store failed">>)))
               /\ input_enabled' = TRUE
               /\ pc' = "idle"
               /\ cur' = [cur EXCEPT !.outcome = "gen_failed", !.memRaised = FALSE]
               /\ queryLog' = <<>>
               /\ genLog' = <<>>
               /\ countLog' = <<>>
               /\ user_input' = <<>>
               /\ active_character' = NoCharacter
               /\ history' = <<>>
               /\ full_response' = <<>>
               /\ response_text' = <<>>
               /\ UNCHANGED << is_typing, paneVars, turn >>
          ELSE IF pc = "store_user"
          THEN /\ storeLog' = Append(done,
                     StoreEntry(StoreCalls(user_input, full_response, StoreOwner)[2], turn))
               /\ pc' = "store_assistant"
               /\ UNCHANGED << chatVars, countLog, input_enabled, is_typing, paneVars,
                               localVars, turn, cur, queryLog, genLog >>
          ELSE /\ storeLog' = done
               /\ pc' = "counting"
               /\ SetPane(UpdateLastMessage(Pane, response_text, TRUE))
               /\ countLog' = << [user_id |-> characters[selected_index + 1].id] >>
               /\ UNCHANGED << input_enabled, is_typing, paneVars, localVars, turn, cur,
                               queryLog, genLog >>

\* variant: the assistant item is issued whatever became of the user item
StoreReturnContinuing(ok) ==
    /\ pc \in {"store_user", "store_assistant"}
    /\ storeLog # <<>>
    /\ ok => StoreCanSucceed(storeLog[Len(storeLog)].user_id)
    /\ LET done == [storeLog EXCEPT ![Len(storeLog)].status = IF ok THEN "ok" ELSE "failed"]
       IN IF pc = "store_user"
          THEN /\ storeLog' = Append(done,
                     StoreEntry(StoreCalls(user_input, full_response, StoreOwner)[2], turn))
               /\ pc' = "store_assistant"
               /\ UNCHANGED << chatVars, countLog >>
          ELSE /\ storeLog' = done
               /\ pc' = "counting"
               /\ SetPane(UpdateLastMessage(Pane, response_text, TRUE))
               /\ countLog' = IF characters = <<>> \/ selected_index >= Len(characters)
                               THEN <<>>
                               ELSE << [user_id |-> characters[selected_index + 1].id] >>
    /\ UNCHANGED << input_enabled, is_typing, paneVars, localVars, turn, cur,
                    queryLog, genLog >>

\* a store call returns or raises.  After the user item the assistant item is
\* issued; a raise leaves _store_conversation through its except clause.  When
\* the generator is exhausted the app makes its final forced update and
\* _update_memory_count asks for the memories of the character selected now.
StoreReturn(ok) ==
    /\ pc \in {"store_user", "store_assistant"}
    /\ storeLog # <<>>
    /\ ok => StoreCanSucceed(storeLog[Len(storeLog)].user_id)
    /\ LET done == [storeLog EXCEPT ![Len(storeLog)].status = IF ok THEN "ok" ELSE "failed"]
       IN IF pc = "store_user" /\ ok
          THEN /\ storeLog' = Append(done,
                     StoreEntry(StoreCalls(user_input, full_response, StoreOwner)[2], turn))
               /\ pc' = "store_assistant"
               /\ UNCHANGED << chatVars, countLog >>
          ELSE /\ storeLog' = done
               /\ pc' = "counting"
               /\ SetPane(UpdateLastMessage(Pane, response_text, TRUE))
               /\ countLog' = IF characters = <<>> \/ selected_index >= Len(characters)
                               THEN <<>>
                               ELSE << [user_id |-> characters[selected_index + 1].id] >>
    /\ UNCHANGED << input_enabled, is_typing, paneVars, localVars, turn, cur,
                    queryLog, genLog >>

\* _update_memory_count returns and the finally clause re-enables the input
Finish ==
    /\ pc = "counting"
    /\ input_enabled' = TRUE
    /\ pc' = "idle"
    /\ cur' = [cur EXCEPT !.outcome = "completed", !.memRaised = FALSE]
    /\ ResetLocals
    /\ UNCHANGED << chatVars, is_typing, paneVars, turn, storeLog >>

\* variant: the text accumulated so far is stored when the stream raises
StreamErrorPersisting(kind) ==
    /\ pc = "streaming"
    /\ SetPane(AddMessage(Pane, ErrorMessage(ErrorText(kind))))
    /\ input_enabled' = TRUE
    /\ pc' = "idle"
    /\ cur' = [cur EXCEPT !.outcome = "gen_failed", !.cause = ErrorText(kind),
                           !.memRaised = FALSE]
    /\ storeLog' = storeLog \o
          [i \in 1..2 |->
              [StoreEntry(StoreCalls(user_input, full_response, StoreOwner)[i], turn)
                 EXCEPT !.status = "ok"]]
    /\ ResetLocals
    /\ UNCHANGED << is_typing, paneVars, turn >>

\* the stream raises (when opened or between chunks): the exception leaves
\* process_message_streaming and the app appends the error message
StreamError(kind) ==
    /\ pc = "streaming"
    /\ SetPane(AddMessage(Pane, ErrorMessage(ErrorText(kind))))
    /\ input_enabled' = TRUE
    /\ pc' = "idle"
    /\ cur' = [cur EXCEPT !.outcome = "gen_failed", !.cause = ErrorText(kind),
                           !.memRaised = FALSE]
    /\ ResetLocals
    /\ UNCHANGED << is_typing, paneVars, turn, storeLog >>

\* variant: the text accumulated so far is stored when the consumer stops
CancelPersisting ==
    /\ pc = "streaming"
    /\ input_enabled' = TRUE
    /\ pc' = "idle"
    /\ cur' = [cur EXCEPT !.outcome = "cancelled", !.memRaised = FALSE]
    /\ storeLog' = storeLog \o
          [i \in 1..2 |->
              [StoreEntry(StoreCalls(user_input, full_response, StoreOwner)[i], turn)
                 EXCEPT !.status = "ok"]]
    /\ ResetLocals
    /\ UNCHANGED << chatVars, is_typing, paneVars, turn >>

\* the consumer of the chunk stream is cancelled or stops iterating: the
\* generator is left at its yield, the finally clause of the app runs
Cancel ==
    /\ pc = "streaming"
    /\ input_enabled' = TRUE
    /\ pc' = "idle"
    /\ cur' = [cur EXCEPT !.outcome = "cancelled", !.memRaised = FALSE]
    /\ ResetLocals
    /\ UNCHANGED << chatVars, is_typing, paneVars, turn, storeLog >>

\* CharacterPane navigation, at any moment
SetSelected(i) ==
    /\ selected_index' = i
    /\ UNCHANGED << chatVars, input_enabled, is_typing, characters, pc, localVars,
                    turn, cur, logVars >>

\* variant: next stops at the last element
NextIndexClamped(chars, i) ==
    IF chars # <<>> THEN Min(i + 1, Len(chars) - 1) ELSE i

\* CharacterPane.next_character: the index it leaves selected
NextIndex(chars, i) ==
    IF chars # <<>> THEN (i + 1) % Len(chars) ELSE i

\* CharacterPane.previous_character: the index it leaves selected
PreviousIndex(chars, i) ==
    IF chars # <<>> THEN (i - 1) % Len(chars) ELSE i

\* variant: an id that is not found selects the first element
IndexOfIdOrFirst(chars, id, i) ==
    IF \E k \in 1..Len(chars) : chars[k].id = id
    THEN (CHOOSE k \in 1..Len(chars) :
              /\ chars[k].id = id
              /\ \A j \in 1..(k - 1) : chars[j].id # id) - 1
    ELSE 0

\* the loop of select_character_by_id, set_active_character and
\* set_active_persona: the index of the first element with the id, and the
\* index as it was when no element has it
IndexOfId(chars, id, i) ==
    IF \E k \in 1..Len(chars) : chars[k].id = id
    THEN (CHOOSE k \in 1..Len(chars) :
              /\ chars[k].id = id
              /\ \A j \in 1..(k - 1) : chars[j].id # id) - 1
    ELSE i

NextCharacter == SetSelected(NextIndex(characters, selected_index))

PreviousCharacter == SetSelected(PreviousIndex(characters, selected_index))

SelectCharacterById(character_id) ==
    SetSelected(IndexOfId(characters, character_id, selected_index))

\* a turn and the navigation of the pane leave the clients and the managers
\* as they are
Next ==
    \/ UNCHANGED auxVars /\ \E raw \in UserInputs : Submit(raw)
    \/ UNCHANGED auxVars /\ \E answer \in MemoryAnswers : QueryReturn(answer)
    \/ UNCHANGED auxVars /\ \E chunk \in Chunks : StreamChunk(chunk)
    \/ UNCHANGED auxVars /\ StreamEnd
    \/ UNCHANGED auxVars /\ \E ok \in BOOLEAN : StoreReturn(ok)
    \/ UNCHANGED auxVars /\ Finish
    \/ UNCHANGED auxVars /\ \E kind \in ErrorKinds : StreamError(kind)
    \/ UNCHANGED auxVars /\ Cancel
    \/ UNCHANGED auxVars /\ NextCharacter
    \/ UNCHANGED auxVars /\ PreviousCharacter
    \/ UNCHANGED auxVars /\ \E character_id \in CharacterIds : SelectCharacterById(character_id)

Spec == Init /\ [][Next]_vars

\* ============================================ the input and the selection
\* The turn as above, with a record of what the user did: `last` holds the
\* latest submission of the input and whether a character was selected by a
\* key or by id before it.
MaxTurns == 1

\* the submission as on_input_submitted receives it: the raw text, and what the
\* conversation and the logs held when it arrived
Submission(raw) ==
    [Call("on_input_submitted",
          [raw |-> raw, turn |-> turn, stores |-> Len(storeLog),
           selected |-> last.prior_op # "none"],
          Len(messages), "none")
       EXCEPT !.prior_op = last.prior_op]

InputSubmitted(raw) ==
    /\ Strip(raw) # <<>> => turn < MaxTurns
    /\ Submit(raw)
    /\ last' = Submission(raw)
    /\ UNCHANGED << clientVars, memoryVars, managerVars >>

\* action_next_character, action_previous_character and the selection by id:
\* the user has selected a character
Selecting ==
    /\ last' = [last EXCEPT !.prior_op = "select"]
    /\ UNCHANGED << clientVars, memoryVars, managerVars >>

InputNext ==
    \/ \E raw \in UserInputs : InputSubmitted(raw)
    \/ UNCHANGED auxVars /\ \E answer \in MemoryAnswers : QueryReturn(answer)
    \/ UNCHANGED auxVars /\ \E chunk \in Chunks : StreamChunk(chunk)
    \/ UNCHANGED auxVars /\ StreamEnd
    \/ UNCHANGED auxVars /\ \E ok \in BOOLEAN : StoreReturn(ok)
    \/ UNCHANGED auxVars /\ Finish
    \/ UNCHANGED auxVars /\ \E kind \in ErrorKinds : StreamError(kind)
    \/ UNCHANGED auxVars /\ Cancel
    \/ Selecting /\ NextCharacter
    \/ Selecting /\ PreviousCharacter
    \/ Selecting /\ \E character_id \in CharacterIds : SelectCharacterById(character_id)

InputSpec == Init /\ [][InputNext]_vars

\* =================================================== the context builders
\* MessageHandler._build_memory_context and _build_conversation_context are
\* pure: process_message_streaming applies one after the other, here to lists
\* of every length up to a bound, and `last` keeps the argument and the text
\* returned.
MaxMemories == 4

MaxHistory == 6

MemoryInputs ==
    UNION { [1..n -> {Mem("m1"), Mem("m2")}] : n \in 0..MaxMemories }

HistoryMessages ==
    { Message("user", <<"hey">>, ""),
      Message("assistant", <<"Hi", "!">>, "Alice"),
      Message("system", <<"Error: ", "timed out">>, "") }

HistoryInputs ==
    UNION { [1..n -> HistoryMessages] : n \in 0..MaxHistory }

\* a handler with a conversation history at hand and nothing in flight
ContextInit ==
    /\ messages = <<>>
    /\ chunk_count = 0
    /\ displayed = <<>>
    /\ input_enabled = TRUE
    /\ is_typing = FALSE
    /\ characters = <<>>
    /\ selected_index = 0
    /\ pc = "idle"
    /\ user_input = <<>>
    /\ active_character = NoCharacter
    /\ history \in HistoryInputs
    /\ full_response = <<>>
    /\ response_text = <<>>
    /\ turn = 0
    /\ cur = NewTurn(<<>>, NoCharacter, 0)
    /\ queryLog = <<>>
    /\ genLog = <<>>
    /\ countLog = <<>>
    /\ storeLog = <<>>
    /\ ClientIdle
    /\ MemoryIdle
    /\ ManagerIdle
    /\ last = NoCall

Built(op, input, result) ==
    Call(op, [input |-> input, result |-> result], Len(input), "none")

\* process_message_streaming: memory_context = self._build_memory_context(memories)
BuildMemoryContextCall(memories) ==
    /\ last.op = "none"
    /\ last' = Built("_build_memory_context", memories, BuildMemoryContext(memories))
    /\ UNCHANGED << turnVars, clientVars, memoryVars, managerVars >>

\* process_message_streaming: the conversation context is built next
BuildConversationContextCall ==
    /\ last.op = "_build_memory_context"
    /\ last' = Built("_build_conversation_context", history,
                     BuildConversationContext(history))
    /\ UNCHANGED << turnVars, clientVars, memoryVars, managerVars >>

ContextNext ==
    \/ \E memories \in MemoryInputs : BuildMemoryContextCall(memories)
    \/ BuildConversationContextCall

ContextSpec == ContextInit /\ [][ContextNext]_vars

\* ================================================== the generation client
\* OllamaClient.generate and OllamaClient.stream over a transport that
\* delivers the response body in reads of its own choosing.
\* a response body has no limit in the code
MaxFragments == 3

Fragment(kind, text) == [kind |-> kind, text |-> text]

\* the newline-delimited fragments a body may hold
Fragments ==
    { Fragment("chunk", "a"),    \* {"response": "a", "done": false}
      Fragment("chunk", "b"),    \* {"response": "b", "done": false}
      Fragment("done", "z"),     \* {"response": "z", "done": true}
      Fragment("broken", ""),    \* {"response":
      Fragment("number", ""),    \* 123
      Fragment("array", ""),     \* [1]
      Fragment("bytes", "") }    \* b"\x80"

Bodies == UNION { [1..n -> Fragments] : n \in 0..MaxFragments }

\* what the transport may do to a request
Faults == { "none", "connect", "timeout" }

\* a part of a read: a whole fragment, or the first or second half of one
Part(frag, piece) == [frag |-> frag, piece |-> piece]

\* the number of fragments whose bytes have all been delivered
Delivered(rs) ==
    LET parts == Concat(rs)
    IN Cardinality({ i \in 1..Len(parts) : parts[i].piece \in {"whole", "tail"} })

\* the last read ended in the middle of a fragment
Carry(rs) ==
    LET parts == Concat(rs)
    IN parts # <<>> /\ parts[Len(parts)].piece = "head"

\* the reads response.aiter_bytes() may deliver next: one fragment, two
\* fragments together, the first half of a JSON object, or its second half
NextReads(b, rs) ==
    LET d == Delivered(rs)
    IN IF d >= Len(b) THEN {}
       ELSE IF Carry(rs) THEN { << Part(b[d + 1], "tail") >> }
       ELSE { << Part(b[d + 1], "whole") >> }
            \cup (IF d + 2 <= Len(b)
                  THEN { << Part(b[d + 1], "whole"), Part(b[d + 2], "whole") >> }
                  ELSE {})
            \cup (IF b[d + 1].kind \in {"chunk", "done"}
                  THEN { << Part(b[d + 1], "head") >> }
                  ELSE {})

Loaded(error, type, response, done) ==
    [error |-> error, type |-> type, response |-> response, done |-> done]

\* json.loads(line) on the bytes of one read: the bytes are decoded as text,
\* then the whole text is parsed as one JSON document
JsonLoads(read) ==
    IF \E i \in 1..Len(read) : read[i].frag.kind = "bytes"
    THEN Loaded("UnicodeDecodeError", "none", "", FALSE)
    ELSE IF Len(read) # 1 \/ read[1].piece # "whole" \/ read[1].frag.kind = "broken"
    THEN Loaded("JSONDecodeError", "none", "", FALSE)
    ELSE LET f == read[1].frag
         IN CASE f.kind = "chunk" -> Loaded("none", "object", f.text, FALSE)
              [] f.kind = "done" -> Loaded("none", "object", f.text, TRUE)
              [] f.kind = "number" -> Loaded("none", "number", "", FALSE)
              [] f.kind = "array" -> Loaded("none", "array", "", FALSE)

Outcome(do, text, exc) == [do |-> do, text |-> text, exc |-> exc]

\* the body of the loop of OllamaClient.stream for one read: only
\* json.JSONDecodeError is caught; "response" in data raises TypeError on a
\* number and is False on an array without that element
LoopBody(read) ==
    LET data == JsonLoads(read)
    IN IF data.error = "JSONDecodeError" THEN Outcome("continue", "", "none")
       ELSE IF data.error # "none" THEN Outcome("raise", "", data.error)
       ELSE IF data.type = "number" THEN Outcome("raise", "", "TypeError")
       ELSE IF data.type = "array" THEN Outcome("continue", "", "none")
       ELSE IF ~data.done THEN Outcome("yield", data.response, "none")
       ELSE Outcome("continue", "", "none")

\* what OllamaClient.generate raises
GenerateRaises(f) ==
    CASE f = "connect" -> "ConnectionError"
      [] f = "timeout" -> "TimeoutError"
      [] OTHER -> "none"

\* what OllamaClient.stream raises: httpx.TimeoutException is not caught
StreamRaises(f) ==
    CASE f = "connect" -> "ConnectionError"
      [] f = "timeout" -> "httpx.TimeoutException"
      [] OTHER -> "none"

ClientInit ==
    /\ TurnIdle
    /\ characters = <<>>
    /\ selected_index = 0
    /\ body \in Bodies
    /\ reads = <<>>
    /\ yields = <<>>
    /\ gen = "created"
    /\ conn = "idle"
    /\ fault = "none"
    /\ raised = "none"
    /\ stopped = NotStopped
    /\ MemoryIdle
    /\ ManagerIdle
    /\ last = NoCall

\* OllamaClient.generate: one request, answered or failed by the transport
Generate(f) ==
    /\ last' = Call("generate", f, 0, GenerateRaises(f))
    /\ UNCHANGED << turnVars, clientVars, memoryVars, managerVars >>

\* the first __anext__ of OllamaClient.stream: the request is opened
StreamOpen(f) ==
    /\ gen = "created"
    /\ fault' = f
    /\ IF f = "none"
       THEN /\ conn' = "open"
            /\ gen' = "reading"
            /\ UNCHANGED raised
       ELSE /\ gen' = "closed"
            /\ raised' = StreamRaises(f)
            /\ UNCHANGED conn
    /\ UNCHANGED << turnVars, body, reads, yields, stopped, memoryVars, managerVars, last >>

\* the transport delivers a read and the loop body runs on it.  A raise
\* leaves the async with block, which releases the connection.
StreamRead ==
    /\ gen \in {"reading", "at_yield"}
    /\ stopped.via = "none"
    /\ \E read \in NextReads(body, reads) :
         /\ reads' = Append(reads, read)
         /\ LET o == LoopBody(read)
            IN CASE o.do = "yield" ->
                      /\ yields' = Append(yields, [text |-> o.text, read |-> Len(reads) + 1])
                      /\ gen' = "at_yield"
                      /\ UNCHANGED << conn, raised >>
                 [] o.do = "continue" ->
                      /\ gen' = "reading"
                      /\ UNCHANGED << yields, conn, raised >>
                 [] o.do = "raise" ->
                      /\ gen' = "closed"
                      /\ conn' = "released"
                      /\ raised' = o.exc
                      /\ UNCHANGED yields
    /\ UNCHANGED << turnVars, body, fault, stopped, memoryVars, managerVars, last >>

\* the transport gives up waiting for the next read
StreamReadTimeout ==
    /\ gen \in {"reading", "at_yield"}
    /\ stopped.via = "none"
    /\ NextReads(body, reads) # {}
    /\ fault' = "timeout"
    /\ raised' = StreamRaises("timeout")
    /\ gen' = "closed"
    /\ conn' = "released"
    /\ UNCHANGED << turnVars, body, reads, yields, stopped, memoryVars, managerVars, last >>

\* the body is exhausted: both loops and the async with block are left
StreamExhausted ==
    /\ gen \in {"reading", "at_yield"}
    /\ stopped.via = "none"
    /\ NextReads(body, reads) = {}
    /\ gen' = "closed"
    /\ conn' = "released"
    /\ UNCHANGED << turnVars, body, reads, yields, fault, raised, stopped,
                    memoryVars, managerVars, last >>

\* the consumer leaves its async for loop with a chunk in hand: the loop over
\* OllamaClient.stream itself, or the loop over process_message_streaming,
\* whose generator holds the only reference to the stream's generator
Stop(via) ==
    /\ gen = "at_yield"
    /\ stopped.via = "none"
    /\ stopped' = [via |-> via,
                   pending |-> IF via = "handler" THEN 2 ELSE 1,
                   reads |-> Len(reads)]
    /\ UNCHANGED << turnVars, body, reads, yields, gen, conn, fault, raised,
                    memoryVars, managerVars, last >>

\* variant: the generator is closed and the response is left open
FinalizeLeaking ==
    /\ stopped.via # "none"
    /\ gen = "at_yield"
    /\ stopped' = [stopped EXCEPT !.pending = @ - 1]
    /\ gen' = IF stopped.pending > 1 THEN gen ELSE "closed"
    /\ UNCHANGED << turnVars, body, reads, yields, conn, fault, raised,
                    memoryVars, managerVars, last >>

\* the event loop closes an abandoned generator: GeneratorExit is raised at
\* its yield.  In process_message_streaming that ends the loop over the
\* stream, whose generator is abandoned in turn; in OllamaClient.stream it
\* leaves the async with block, which releases the connection.
Finalize ==
    /\ stopped.via # "none"
    /\ gen = "at_yield"
    /\ stopped' = [stopped EXCEPT !.pending = @ - 1]
    /\ IF stopped.pending > 1
       THEN UNCHANGED << gen, conn >>
       ELSE /\ gen' = "closed"
            /\ conn' = "released"
    /\ UNCHANGED << turnVars, body, reads, yields, fault, raised,
                    memoryVars, managerVars, last >>

ClientNext ==
    \/ \E f \in Faults : Generate(f)
    \/ \E f \in Faults : StreamOpen(f)
    \/ StreamRead
    \/ StreamReadTimeout
    \/ StreamExhausted
    \/ \E via \in {"direct", "handler"} : Stop(via)
    \/ Finalize

\* the event loop runs the finalizer it has scheduled for an abandoned
\* asynchronous generator
ClientSpec == ClientInit /\ [][ClientNext]_vars /\ WF_vars(Finalize)

\* ====================================================== the memory client
\* MemoryClient.store over a backend that accepts or fails each request.
\* the number of store calls has no limit in the code
MaxRequests == 3

\* the owner ids a caller may pass; "" stands for None and for the empty string
OwnerIds == { "", "alice", "bob" }

StoredContents == { <<"User said: ", "hey">>, <<"Assistant replied: ", "Hi">> }

AddRequest(content, tags, user_id) ==
    [content |-> content, tags |-> tags, user_id |-> user_id]

MemoryInit ==
    /\ TurnIdle
    /\ characters = <<>>
    /\ selected_index = 0
    /\ ClientIdle
    /\ MemoryIdle
    /\ ManagerIdle
    /\ last = NoCall

\* variant: a failure of the backend is absorbed, as in MemoryClient.query
MemoryStoreSoft(content, tags, user_id, fails) ==
    /\ Len(om_requests) < MaxRequests
    /\ IF user_id = ""
       THEN /\ last' = Call("store", [user_id |-> user_id, fails |-> fails],
                            Len(om_requests), "ValueError")
            /\ UNCHANGED memoryVars
       ELSE /\ om_requests' = Append(om_requests, AddRequest(content, tags, user_id))
            /\ om_items' = IF fails THEN om_items
                           ELSE Append(om_items, AddRequest(content, tags, user_id))
            /\ last' = Call("store", [user_id |-> user_id, fails |-> fails],
                            Len(om_requests), "none")
    /\ UNCHANGED << turnVars, clientVars, managerVars >>

\* MemoryClient.store: without an owner it raises before self._om.add is
\* called; what self._om.add raises is not caught
MemoryStore(content, tags, user_id, fails) ==
    /\ Len(om_requests) < MaxRequests
    /\ IF user_id = ""
       THEN /\ last' = Call("store", [user_id |-> user_id, fails |-> fails],
                            Len(om_requests), "ValueError")
            /\ UNCHANGED memoryVars
       ELSE /\ om_requests' = Append(om_requests, AddRequest(content, tags, user_id))
            /\ om_items' = IF fails THEN om_items
                           ELSE Append(om_items, AddRequest(content, tags, user_id))
            /\ last' = Call("store", [user_id |-> user_id, fails |-> fails],
                            Len(om_requests), IF fails THEN "BackendError" ELSE "none")
    /\ UNCHANGED << turnVars, clientVars, managerVars >>

MemoryNext ==
    \E content \in StoredContents, user_id \in OwnerIds, fails \in BOOLEAN :
        MemoryStore(content, <<"conversation">>, user_id, fails)

MemorySpec == MemoryInit /\ [][MemoryNext]_vars

\* ================================================ the persona managers
\* CharacterManager and PersonaManager over a directory of definition
\* files, and the CharacterPane built on the loaded list.
\* Field(...) of the model: the required fields are present and the
\* temperature, given or defaulted, is within its limits
Valid(f) ==
    /\ f.kind = "object"
    /\ RequiredFields \subseteq f.fields
    /\ LET t == IF "temperature" \in f.fields THEN f.data.temperature
                ELSE DefaultTemperature
       IN MinTemperature <= t /\ t <= MaxTemperature

\* model_validate(data) on a valid definition
ModelValidate(f) ==
    [f.data EXCEPT !.temperature =
        IF "temperature" \in f.fields THEN @ ELSE DefaultTemperature]

\* json.dump(character.model_dump(), f)
JsonDump(character) == JsonObject(AllFields, character)

\* the loop of load_characters and load_personas over the files still to
\* read: json.JSONDecodeError and ValidationError are caught, the error of
\* decoding the bytes of the file as text is not
RECURSIVE LoadFrom(_, _, _)
LoadFrom(dir, names, acc) ==
    IF names = <<>> THEN [raised |-> "none", characters |-> acc]
    ELSE LET f == dir[Head(names)]
         IN CASE f.kind = "absent" -> LoadFrom(dir, Tail(names), acc)
              [] f.kind = "undecodable" ->
                   [raised |-> "UnicodeDecodeError", characters |-> acc]
              [] f.kind = "broken" -> LoadFrom(dir, Tail(names), acc)
              [] f.kind = "object" ->
                   IF Valid(f)
                   THEN LoadFrom(dir, Tail(names), Append(acc, ModelValidate(f)))
                   ELSE LoadFrom(dir, Tail(names), acc)

LoadCharacters(dir) == LoadFrom(dir, FileNames, <<>>)

\* get_character_by_id found no element
Unknown(chars, id) == \A k \in 1..Len(chars) : chars[k].id # id

\* the ids a caller may select
PersonaIds == { "alice", "bob", "carol", "ghost" }

\* the characters a caller may create
NewCharacters == { Definition("alice", 7), Definition("carol", 5) }

\* the managers are constructed over the directory and the pane is built on
\* the list the CharacterManager loaded
PersonaInit ==
    /\ TurnIdle
    /\ ClientIdle
    /\ MemoryIdle
    /\ files \in [DOMAIN EmptyDir -> DefinitionFiles]
    /\ LET r == LoadCharacters(files)
       IN /\ manager_characters = r.characters
          /\ personas = r.characters
          /\ characters = r.characters
          /\ last = Call("load", "", 0, r.raised)
    /\ active_index = 0
    /\ persona_active_index = 0
    /\ selected_index = 0

\* the constructors returned: load raised nothing
Constructed == ~(last.op = "load" /\ last.raised # "none")

\* the record of a navigation call remembers the navigation call before it
Chained(call) ==
    IF last.op \in {"next_character", "previous_character"}
    THEN [call EXCEPT !.prior_op = last.op, !.prior_pre = last.pre]
    ELSE call

\* CharacterManager.set_active_character
SetActiveCharacter(character_id) ==
    /\ Constructed
    /\ active_index' = IndexOfId(manager_characters, character_id, active_index)
    /\ last' = Call("set_active_character", character_id, active_index, "none")
    /\ UNCHANGED << turnVars, clientVars, memoryVars, files, manager_characters,
                    personas, persona_active_index >>

\* PersonaManager.set_active_persona
SetActivePersona(persona_id) ==
    /\ Constructed
    /\ persona_active_index' = IndexOfId(personas, persona_id, persona_active_index)
    /\ last' = Call("set_active_persona", persona_id, persona_active_index, "none")
    /\ UNCHANGED << turnVars, clientVars, memoryVars, files, manager_characters,
                    active_index, personas >>

\* CharacterPane.select_character_by_id
PaneSelectCharacterById(character_id) ==
    /\ Constructed
    /\ SelectCharacterById(character_id)
    /\ last' = Call("select_character_by_id", character_id, selected_index, "none")
    /\ UNCHANGED << clientVars, memoryVars, managerVars >>

\* WintermuteApp.action_next_character
ActionNextCharacter ==
    /\ Constructed
    /\ NextCharacter
    /\ last' = Chained(Call("next_character", "", selected_index, "none"))
    /\ UNCHANGED << clientVars, memoryVars, managerVars >>

\* WintermuteApp.action_previous_character
ActionPreviousCharacter ==
    /\ Constructed
    /\ PreviousCharacter
    /\ last' = Chained(Call("previous_character", "", selected_index, "none"))
    /\ UNCHANGED << clientVars, memoryVars, managerVars >>

\* what a create call was given and found
Created(character) ==
    [id |-> character.id, character |-> character,
     files |-> files, characters |-> manager_characters]

\* variant: the file is written whether or not the id is loaded
CreateCharacterOverwriting(character) ==
    /\ Constructed
    /\ LET written == [files EXCEPT ![FileName(character.id)] = JsonDump(character)]
           r == LoadCharacters(written)
       IN /\ files' = written
          /\ manager_characters' = r.characters
          /\ last' = Call("create_character", Created(character), active_index,
                          IF r.raised # "none" THEN "Exception" ELSE "none")
    /\ UNCHANGED << turnVars, clientVars, memoryVars, active_index, personas,
                    persona_active_index >>

\* CharacterManager.create_character: an id that get_character_by_id finds
\* raises ValueError; otherwise {id}.json is written and the directory is
\* loaded again
CreateCharacter(character) ==
    /\ Constructed
    /\ IF ~Unknown(manager_characters, character.id)
       THEN /\ last' = Call("create_character", Created(character), active_index,
                            "ValueError")
            /\ UNCHANGED << files, manager_characters >>
       ELSE LET written == [files EXCEPT ![FileName(character.id)] = JsonDump(character)]
                r == LoadCharacters(written)
            IN /\ files' = written
               /\ manager_characters' = r.characters
               /\ last' = Call("create_character", Created(character), active_index,
                               IF r.raised # "none" THEN "Exception" ELSE "none")
    /\ UNCHANGED << turnVars, clientVars, memoryVars, active_index, personas,
                    persona_active_index >>

PersonaNext ==
    \/ \E character_id \in PersonaIds : SetActiveCharacter(character_id)
    \/ \E persona_id \in PersonaIds : SetActivePersona(persona_id)
    \/ \E character_id \in PersonaIds : PaneSelectCharacterById(character_id)
    \/ ActionNextCharacter
    \/ ActionPreviousCharacter
    \/ \E character \in NewCharacters : CreateCharacter(character)

PersonaSpec == PersonaInit /\ [][PersonaNext]_vars

\* ============================================ the manager and its directory
\* CharacterManager alone, over a directory that changes between its calls:
\* definition files are added and removed from outside, and the manager
\* creates, updates and reloads.
ManagedIds == { "alice", "bob", "carol" }

\* the file create_character writes for an id
ManagedFile(id) == JsonDump(Definition(id, DefaultTemperature))

\* the directories holding such files for some of the ids
ManagedDirs ==
    { [n \in DOMAIN EmptyDir |->
          IF \E id \in ids : FileName(id) = n
          THEN ManagedFile(CHOOSE id \in ids : FileName(id) = n)
          ELSE Absent] : ids \in SUBSET ManagedIds }

\* CharacterManager.get_active_character: None for an empty list, otherwise
\* the element at active_index, and IndexError when there is none
GetActiveCharacter(chars, i) ==
    IF chars = <<>> THEN [raised |-> "none", found |-> FALSE, character |-> NoCharacter]
    ELSE IF i < Len(chars)
    THEN [raised |-> "none", found |-> TRUE, character |-> chars[i + 1]]
    ELSE [raised |-> "IndexError", found |-> FALSE, character |-> NoCharacter]

\* CharacterManager.__init__ over a directory
ManagerInit ==
    /\ TurnIdle
    /\ characters = <<>>
    /\ selected_index = 0
    /\ ClientIdle
    /\ MemoryIdle
    /\ files \in ManagedDirs
    /\ manager_characters = LoadCharacters(files).characters
    /\ active_index = 0
    /\ personas = <<>>
    /\ persona_active_index = 0
    /\ last = Call("load", "", 0, "none")

\* what a reload found before it loaded
Reloaded == [files |-> files, characters |-> manager_characters]

\* CharacterManager.reload
Reload ==
    /\ LET r == LoadCharacters(files)
       IN /\ manager_characters' = r.characters
          /\ last' = Call("reload", Reloaded, active_index, r.raised)
    /\ UNCHANGED << turnVars, clientVars, memoryVars, files, active_index, personas,
                    persona_active_index >>

\* CharacterManager.update_character: an id that get_character_by_id does not
\* find raises ValueError; otherwise {id}.json is overwritten and the
\* directory is loaded again
UpdateCharacter(character) ==
    /\ IF Unknown(manager_characters, character.id)
       THEN /\ last' = Call("update_character", Created(character), active_index,
                            "ValueError")
            /\ UNCHANGED << files, manager_characters >>
       ELSE LET written == [files EXCEPT ![FileName(character.id)] = JsonDump(character)]
                r == LoadCharacters(written)
            IN /\ files' = written
               /\ manager_characters' = r.characters
               /\ last' = Call("update_character", Created(character), active_index,
                               IF r.raised # "none" THEN "Exception" ELSE "none")
    /\ UNCHANGED << turnVars, clientVars, memoryVars, active_index, personas,
                    persona_active_index >>

\* a definition file is removed from the directory from outside
FileRemoved(id) ==
    /\ files[FileName(id)] # Absent
    /\ files' = [files EXCEPT ![FileName(id)] = Absent]
    /\ UNCHANGED << turnVars, clientVars, memoryVars, manager_characters, active_index,
                    personas, persona_active_index, last >>

\* a definition file is added to the directory from outside
FileAdded(id) ==
    /\ files[FileName(id)] = Absent
    /\ files' = [files EXCEPT ![FileName(id)] = ManagedFile(id)]
    /\ UNCHANGED << turnVars, clientVars, memoryVars, manager_characters, active_index,
                    personas, persona_active_index, last >>

ManagerNext ==
    \/ \E character_id \in PersonaIds : SetActiveCharacter(character_id)
    \/ \E character \in NewCharacters : CreateCharacter(character)
    \/ \E character \in NewCharacters : UpdateCharacter(character)
    \/ Reload
    \/ \E id \in ManagedIds : FileRemoved(id)
    \/ \E id \in ManagedIds : FileAdded(id)

ManagerSpec == ManagerInit /\ [][ManagerNext]_vars

\* ----------------------------------------------------------------- claims
TurnStores(t) == SelectSeq(storeLog, LAMBDA e : e.turn = t)

TurnMessages == SubSeq(messages, cur.msgStart + 1, Len(messages))

IsUserItem(e) == e.tags = <<"conversation", "user">> /\ Head(e.content) = "User said: "

IsAssistantItem(e) ==
    e.tags = <<"conversation", "assistant">> /\ Head(e.content) = "Assistant replied: "

\* C1: every store call is issued after the generation stream of its turn has
\* ended, no chunk is yielded after a store call was issued, and in every turn
\* the "User said: ..." item is issued before the "Assistant replied: ..." item.
C1_StoresAfterStreamUserFirst ==
    /\ \A i \in 1..Len(storeLog) :
          /\ storeLog[i].ended
          /\ storeLog[i].turn = turn => storeLog[i].chunks = cur.yielded
    /\ \A t \in 1..turn :
          LET ts == TurnStores(t)
          IN /\ Len(ts) <= 2
             /\ Len(ts) >= 1 => IsUserItem(ts[1])
             /\ Len(ts) = 2 => IsAssistantItem(ts[2])

C1_Witness ==
    /\ pc = "store_assistant"
    /\ Len(TurnStores(turn)) = 2
    /\ Len(cur.yielded) >= 2

\* C2: a turn whose generation stream raised, at opening or after some chunks,
\* has issued no store call.
C2_NoStoreOnStreamError ==
    cur.outcome = "gen_failed" => TurnStores(turn) = <<>>

C2_Witness ==
    /\ cur.outcome = "gen_failed"
    /\ Len(cur.yielded) >= 1
    /\ turn = 2
    /\ storeLog # <<>>

\* C3: the memory query, the temperature and system prompt of the generation
\* request and the owner of both store calls of a turn are those of the
\* character that was selected when the turn started, whatever the user
\* selects while the turn is in flight.
C3_PersonaCapturedAtTurnStart ==
    /\ \A i \in 1..Len(queryLog) : queryLog[i].user_id = cur.selected.id
    /\ \A i \in 1..Len(genLog) :
          /\ genLog[i].temperature = cur.selected.temperature
          /\ genLog[i].system = CombinedSystemPrompt(cur.selected)
    /\ \A i \in 1..Len(storeLog) :
          storeLog[i].turn = turn => storeLog[i].user_id = cur.selected.id

C3_Witness ==
    /\ pc = "counting"
    /\ Len(TurnStores(turn)) = 2
    /\ characters[selected_index + 1].id # cur.selected.id

\* C4: store calls are never reordered or interleaved across turns: when a
\* store call is issued, every earlier store call has returned or failed and
\* belongs to the same or an earlier turn.
C4_StoresNotInterleaved ==
    \A i, j \in 1..Len(storeLog) :
        i < j => /\ storeLog[i].turn <= storeLog[j].turn
                 /\ storeLog[i].status # "pending"

C4_Witness ==
    /\ Len(storeLog) = 4
    /\ storeLog[2].turn = 1
    /\ storeLog[3].turn = 2
    /\ storeLog[4].status = "pending"

\* C5: a store call that fails does not fail the turn: the turn appends no
\* system message, it completes, and the assistant message holds the full
\* response.
C5_StoreFailureIsSoft ==
    (\E i \in 1..Len(storeLog) : storeLog[i].turn = turn /\ storeLog[i].status = "failed") =>
        /\ pc \in {"counting", "idle"}
        /\ cur.outcome \in {"running", "completed"}
        /\ \A i \in 1..Len(TurnMessages) : TurnMessages[i].role # "system"
        /\ messages[Len(messages)] =
              Message("assistant", Concat(cur.yielded), cur.selected.name)

C5_Witness ==
    /\ cur.outcome = "completed"
    /\ Len(TurnStores(turn)) = 2
    /\ TurnStores(turn)[2].status = "failed"
    /\ Len(cur.yielded) = 2

\* C6: when the memory backend raises on the query of a turn, the turn goes on
\* to generation, and the prompt it sends has an empty memory context.
C6_QueryErrorAbsorbed ==
    cur.memRaised =>
        /\ pc \in {"streaming", "store_user", "store_assistant", "counting"}
        /\ Len(genLog) = 1
        /\ genLog[1].memory_context = <<>>
        /\ genLog[1].prompt =
              BuildPrompt(cur.input, <<>>, BuildConversationContext(history))

C6_Witness ==
    /\ cur.memRaised
    /\ queryLog # <<>>
    /\ pc = "counting"
    /\ Len(TurnStores(turn)) = 2

\* C7: a turn whose generation fails appends exactly one system message, and
\* its content is "Error: " followed by the text of the error.
C7_OneErrorMessage ==
    cur.outcome = "gen_failed" =>
        LET sys == SelectSeq(TurnMessages, LAMBDA m : m.role = "system")
        IN /\ Len(sys) = 1
           /\ sys[1].content = <<"Error: ">> \o cur.cause
           /\ messages[Len(messages)] = sys[1]

C7_Witness ==
    /\ cur.outcome = "gen_failed"
    /\ cur.cause = ErrorText("connect")
    /\ Len(messages) = 6

\* C8: after a turn whose stream ended normally, the assistant message holds
\* the concatenation, in order, of all chunks the stream yielded, and it is
\* what the pane displays.
C8_FinalContentIsConcatenation ==
    (pc = "counting" \/ cur.outcome = "completed") =>
        /\ Len(messages) = cur.msgStart + 2
        /\ messages[Len(messages)].role = "assistant"
        /\ messages[Len(messages)].content = Concat(cur.yielded)
        /\ displayed = Contents(messages)

C8_Witness ==
    /\ cur.outcome = "completed"
    /\ Len(cur.yielded) = 2
    /\ cur.yielded[1] # cur.yielded[2]
    /\ chunk_count % 3 # 0

\* C9: a turn whose stream ended and none of whose store calls failed issues
\* exactly two store calls: "User said: " with the user message, tagged
\* conversation, user; then "Assistant replied: " with the concatenation of
\* the chunks, tagged conversation, assistant; both owned by the id of the
\* character captured at turn start.
StoreRequest(e) == [content |-> e.content, tags |-> e.tags, user_id |-> e.user_id]

C9_TwoStoreCalls ==
    (/\ pc \in {"counting", "idle"}
     /\ cur.ended
     /\ \A i \in 1..Len(storeLog) : storeLog[i].turn = turn => storeLog[i].status = "ok") =>
        LET ts == TurnStores(turn)
        IN /\ Len(ts) = 2
           /\ StoreRequest(ts[1]) =
                 [content |-> <<"User said: ">> \o cur.input,
                  tags |-> <<"conversation", "user">>,
                  user_id |-> cur.selected.id]
           /\ StoreRequest(ts[2]) =
                 [content |-> <<"Assistant replied: ">> \o Concat(cur.yielded),
                  tags |-> <<"conversation", "assistant">>,
                  user_id |-> cur.selected.id]

C9_Witness ==
    /\ cur.outcome = "completed"
    /\ Len(TurnStores(turn)) = 2
    /\ TurnStores(turn)[2].status = "ok"
    /\ Len(cur.yielded) = 3

\* C10 as stated: a turn whose chunk stream the caller ended early has issued
\* its store calls with the text accumulated so far.
C10_Original ==
    cur.outcome = "cancelled" =>
        \E i \in 1..Len(storeLog) :
            /\ storeLog[i].turn = turn
            /\ storeLog[i].content = <<"Assistant replied: ">> \o Concat(cur.yielded)

\* C10 (amended): a turn whose chunk stream the caller ended early never
\* reaches Persisting: it issues no store call, whatever text was accumulated.
C10_NoStoreOnEarlyTermination ==
    cur.outcome = "cancelled" =>
        /\ ~cur.ended
        /\ \A i \in 1..Len(storeLog) : storeLog[i].turn # turn

C10_Witness ==
    /\ cur.outcome = "cancelled"
    /\ Len(cur.yielded) = 2
    /\ messages[Len(messages)].content = Concat(cur.yielded)

\* ------------------------------------------- claims on the generation client
YieldedTexts == [i \in 1..Len(yields) |-> yields[i].text]

ChunkTexts(b) ==
    LET cs == SelectSeq(b, LAMBDA f : f.kind = "chunk")
    IN [i \in 1..Len(cs) |-> cs[i].text]

\* the stream was read to the end of the body and raised nothing
EndedNormally ==
    /\ gen = "closed"
    /\ raised = "none"
    /\ fault = "none"
    /\ stopped.via = "none"

\* the transport delivered every fragment in a read of its own
OnePerRead ==
    \A k \in 1..Len(reads) : Len(reads[k]) = 1 /\ reads[k][1].piece = "whole"

\* the reads that json.loads decoded to an object marked done
DoneReads ==
    { k \in 1..Len(reads) :
        LET data == JsonLoads(reads[k])
        IN data.error = "none" /\ data.type = "object" /\ data.done }

\* C11 as stated: for a body of well-formed fragments that carry a response
\* and are not marked done, a stream read to its end has yielded exactly one
\* chunk per fragment, in arrival order, however the transport grouped the
\* bytes into reads.
C11_OneChunkPerFragment ==
    (EndedNormally /\ \A i \in 1..Len(body) : body[i].kind = "chunk") =>
        YieldedTexts = ChunkTexts(body)

\* C12 as stated: no chunk is yielded after a fragment marked done was
\* decoded, and the text of a fragment marked done is never yielded.
C12_NothingAfterDone ==
    \A i \in 1..Len(yields) :
        /\ \A k \in DoneReads : yields[i].read < k
        /\ yields[i].read \notin DoneReads

\* C13 as stated: a malformed fragment (broken JSON, a JSON value that is no
\* object, undecodable bytes) never makes the stream raise, and the chunks of
\* all well-formed fragments are still yielded.
C13_MalformedSkipped ==
    /\ raised \notin {"TypeError", "UnicodeDecodeError"}
    /\ (EndedNormally /\ OnePerRead /\ \A i \in 1..Len(body) : body[i].kind # "done") =>
          YieldedTexts = ChunkTexts(body)

\* C14: when a consumer stops iterating the chunk sequence before it ends,
\* directly or through process_message_streaming, no further read is taken
\* from the transport and the connection is eventually released, whatever
\* is left of the body.
C14_ReleasedOnEarlyStop ==
    /\ [](stopped.via # "none" => Len(reads) = stopped.reads)
    /\ (stopped.via # "none") ~> (conn = "released")

C14_Witness ==
    /\ stopped.via = "handler"
    /\ stopped.pending = 0
    /\ conn = "released"
    /\ Delivered(reads) < Len(body)

\* C15 as stated: generate and stream both raise ConnectionError on a
\* connection failure and TimeoutError on a timeout.
C15_DistinctErrorKinds ==
    /\ last.op = "generate" =>
          last.raised = (CASE last.arg = "connect" -> "ConnectionError"
                           [] last.arg = "timeout" -> "TimeoutError"
                           [] OTHER -> "none")
    /\ fault = "connect" => raised = "ConnectionError"
    /\ fault = "timeout" => raised = "TimeoutError"

C17_UnknownIdIsNoOp ==
    /\ (last.op = "set_active_character" /\ Unknown(manager_characters, last.arg)) =>
          active_index = last.pre /\ last.raised = "none"
    /\ (last.op = "set_active_persona" /\ Unknown(personas, last.arg)) =>
          persona_active_index = last.pre /\ last.raised = "none"
    /\ (last.op = "select_character_by_id" /\ Unknown(characters, last.arg)) =>
          selected_index = last.pre /\ last.raised = "none"

C17_Witness ==
    /\ last.op = "set_active_character"
    /\ last.arg = "carol"
    /\ Unknown(manager_characters, "carol")
    /\ Len(manager_characters) = 3
    /\ active_index = 2

\* C18: on a list of n > 0 elements next moves the selection from i to
\* (i+1) mod n and previous to (i-1+n) mod n, next followed by previous and
\* previous followed by next return the selection to i, and on an empty list
\* both leave the selection as it was.
C18_NextPreviousCircular ==
    LET n == Len(characters)
    IN /\ last.op = "next_character" =>
             selected_index = IF n = 0 THEN last.pre ELSE (last.pre + 1) % n
       /\ last.op = "previous_character" =>
             selected_index = IF n = 0 THEN last.pre ELSE (last.pre - 1 + n) % n
       /\ (last.op = "previous_character" /\ last.prior_op = "next_character") =>
             selected_index = last.prior_pre
       /\ (last.op = "next_character" /\ last.prior_op = "previous_character") =>
             selected_index = last.prior_pre

C18_Witness ==
    /\ last.op = "previous_character"
    /\ last.prior_op = "next_character"
    /\ Len(characters) = 3
    /\ last.prior_pre = 2
    /\ last.pre = 0
    /\ selected_index = 2

\* the valid definitions of a directory, in the order of its files
ValidDefinitions(dir) ==
    LET names == SelectSeq(FileNames, LAMBDA n : Valid(dir[n]))
    IN [k \in 1..Len(names) |-> ModelValidate(dir[names[k]])]

\* C19 as stated: a load never fails, whatever the files of the directory
\* hold, and it loads every valid definition of the directory.
C19_LoadSkipsInvalid ==
    /\ last.op = "load" =>
          last.raised = "none" /\ manager_characters = ValidDefinitions(files)
    /\ (last.op = "create_character" /\ last.raised # "ValueError") =>
          last.raised = "none" /\ manager_characters = ValidDefinitions(files)

\* C20: creating a character whose id the loaded set holds raises, writes no
\* file and leaves the loaded set as it was.
C20_CreateExistingRaises ==
    (last.op = "create_character" /\ ~Unknown(last.arg.characters, last.arg.id)) =>
        /\ last.raised = "ValueError"
        /\ files = last.arg.files
        /\ manager_characters = last.arg.characters

C20_Witness ==
    /\ last.op = "create_character"
    /\ last.raised = "ValueError"
    /\ files[FileName(last.arg.id)].kind = "object"
    /\ files[FileName(last.arg.id)] # JsonDump(last.arg.character)
    /\ ~Unknown(manager_characters, last.arg.id)

\* ------------------------------------------------ claims on a turn, continued
\* C30: when the store of the "User said: ..." item of a turn fails, the store
\* of the "Assistant replied: ..." item is not attempted for that turn.
C30_NoAssistantStoreAfterFailedUserStore ==
    \A t \in 1..turn :
        LET ts == TurnStores(t)
        IN (Len(ts) >= 1 /\ ts[1].status = "failed") =>
              /\ Len(ts) = 1
              /\ IsUserItem(ts[1])
              /\ \A i \in 1..Len(storeLog) :
                    storeLog[i].turn = t => ~IsAssistantItem(storeLog[i])

C30_Witness ==
    /\ cur.outcome = "completed"
    /\ Len(TurnStores(turn)) = 1
    /\ TurnStores(turn)[1].status = "failed"
    /\ Len(cur.yielded) >= 1

\* C23: once a turn has settled, completed or failed, the conversation holds
\* no assistant message with empty content that the turn appended.
C23_NoEmptyAssistantOnceSettled ==
    cur.outcome \in {"completed", "gen_failed"} =>
        \A i \in 1..Len(TurnMessages) :
            TurnMessages[i].role = "assistant" => TurnMessages[i].content # <<>>

\* C26: the conversation context of a turn is built from the messages that
\* precede the turn only: the prompt sent to generation holds the current user
\* message once, as its final "User: ..." line, and no line for the empty
\* assistant placeholder of the turn.
C26_ContextPrecedesTurn ==
    \A i \in 1..Len(genLog) :
        genLog[i].prompt =
            BuildPrompt(cur.input, genLog[i].memory_context,
                        BuildConversationContext(
                            LastN(SubSeq(messages, 1, cur.msgStart), 10)))

\* C29: the input is disabled while a turn is in flight, and once the turn has
\* ended, in success, in a generation failure or in a failure to resolve a
\* persona, the input is enabled and the typing indicator is off.
C29_UiReturnsToIdle ==
    /\ pc # "idle" => ~input_enabled
    /\ (pc = "idle" /\ turn > 0) => (input_enabled /\ ~is_typing)

\* ------------------------------------------------------ claims on the input
\* C21: a turn starts only on non-empty trimmed text: a submission of empty or
\* whitespace-only input appends no message and issues no memory query, no
\* generation request and no store call.
C21_BlankInputStartsNoTurn ==
    /\ turn > 0 => (cur.input # <<>> /\ cur.input = Strip(cur.input))
    /\ (last.op = "on_input_submitted" /\ Strip(last.arg.raw) = <<>>) =>
          /\ Len(messages) = last.pre
          /\ turn = last.arg.turn
          /\ pc = "idle"
          /\ queryLog = <<>>
          /\ genLog = <<>>
          /\ Len(storeLog) = last.arg.stores

C21_Witness ==
    /\ last.op = "on_input_submitted"
    /\ last.arg.raw # <<>>
    /\ Strip(last.arg.raw) = <<>>
    /\ last.pre >= 2
    /\ storeLog # <<>>

\* C22: a turn submitted when the user has selected no character runs with the
\* first loaded character: the memory query, the generation request and the
\* store calls of the turn are made for it.
C22_FirstPersonaWhenNoneSelected ==
    (/\ last.op = "on_input_submitted"
     /\ Strip(last.arg.raw) # <<>>
     /\ ~last.arg.selected
     /\ characters # <<>>) =>
        /\ cur.outcome # "no_character"
        /\ cur.selected = characters[1]
        /\ pc # "idle" => active_character = characters[1]
        /\ \A i \in 1..Len(queryLog) : queryLog[i].user_id = characters[1].id
        /\ \A i \in 1..Len(genLog) :
              /\ genLog[i].temperature = characters[1].temperature
              /\ genLog[i].system = CombinedSystemPrompt(characters[1])
        /\ \A i \in 1..Len(storeLog) :
              storeLog[i].turn = turn => storeLog[i].user_id = characters[1].id

C22_Witness ==
    /\ last.op = "on_input_submitted"
    /\ Strip(last.arg.raw) # <<>>
    /\ ~last.arg.selected
    /\ Len(characters) = 2
    /\ selected_index = 1
    /\ cur.outcome = "completed"
    /\ Len(TurnStores(turn)) = 2

\* ------------------------------------------- claims on the context builders
\* the lines of a text, split at its newline pieces
RECURSIVE SplitLines(_)
SplitLines(text) ==
    IF \A k \in 1..Len(text) : text[k] # "\n" THEN << text >>
    ELSE LET k == CHOOSE j \in 1..Len(text) :
                      /\ text[j] = "\n"
                      /\ \A i \in 1..(j - 1) : text[i] # "\n"
         IN << SubSeq(text, 1, k - 1) >> \o SplitLines(SubSeq(text, k + 1, Len(text)))

\* C24: the memory context renders at most the first 3 of the items given, in
\* the order given, each as a "- " bullet of its content under the fixed
\* header; for an empty list it is the empty string.
C24_MemoryContextTopThree ==
    last.op = "_build_memory_context" =>
        LET memories == last.arg.input
            result == last.arg.result
        IN IF memories = <<>> THEN result = <<>>
           ELSE /\ Head(result) = "Relevant context:\n"
                /\ LET lines == SplitLines(Tail(result))
                   IN /\ Len(lines) = Min(3, Len(memories))
                      /\ \A k \in 1..Len(lines) :
                            lines[k] = <<"- ">> \o memories[k].content

C24_Witness ==
    /\ last.op = "_build_memory_context"
    /\ Len(last.arg.input) = 4
    /\ last.arg.input[3] # last.arg.input[4]
    /\ last.arg.input[1] # last.arg.input[2]

\* C25: the conversation context renders at most the last 5 messages of the
\* history, earliest first, each as "{Role}: {content}" with the role
\* capitalised, under the fixed header; for an empty history it is the empty
\* string.
C25_ConversationContextLastFive ==
    last.op = "_build_conversation_context" =>
        LET conversation_history == last.arg.input
            result == last.arg.result
            n == Len(conversation_history)
        IN IF conversation_history = <<>> THEN result = <<>>
           ELSE /\ Head(result) = "Recent conversation:\n"
                /\ LET lines == SplitLines(Tail(result))
                       first == n - Len(lines)
                   IN /\ Len(lines) = Min(5, n)
                      /\ \A k \in 1..Len(lines) :
                            LET msg == conversation_history[first + k]
                            IN /\ lines[k][1] =
                                     (CASE msg.role = "user" -> "User"
                                        [] msg.role = "assistant" -> "Assistant"
                                        [] msg.role = "system" -> "System")
                               /\ lines[k][2] = ": "
                               /\ SubSeq(lines[k], 3, Len(lines[k])) = msg.content

C25_Witness ==
    /\ last.op = "_build_conversation_context"
    /\ Len(last.arg.input) = 6
    /\ last.arg.input[1] # last.arg.input[6]
    /\ last.arg.input[1] # last.arg.input[2]
    /\ last.arg.input[5].role = "system"

\* ------------------------------------------- claims on the manager's selection
\* C27: after any sequence of set_active_character, create_character,
\* update_character and reload, with definition files added and removed in
\* between, whenever characters are loaded active_index is below their number
\* and get_active_character returns one of them without raising.
C27_ActiveIndexInRange ==
    manager_characters # <<>> =>
        /\ active_index < Len(manager_characters)
        /\ LET r == GetActiveCharacter(manager_characters, active_index)
           IN /\ r.raised = "none"
              /\ r.found
              /\ \E k \in 1..Len(manager_characters) : manager_characters[k] = r.character

\* C28: create_character, update_character and reload leave the same
\* character active, by id, as long as it is still among the loaded ones.
C28_ActiveCharacterKept ==
    last.op \in {"create_character", "update_character", "reload"} =>
        LET before == GetActiveCharacter(last.arg.characters, last.pre)
            after == GetActiveCharacter(manager_characters, active_index)
        IN (before.found /\ ~Unknown(manager_characters, before.character.id)) =>
              /\ after.found
              /\ after.character.id = before.character.id

====
